---- MODULE Spec2Model ----
(***************************************************************************)
(* Model of sklearn.svm.LinearSVC.ipynb: train_linear_svc_model, which     *)
(* fits CountVectorizer -> TfidfTransformer -> LinearSVC and pickles the   *)
(* vectorizer and the model, and classify_utterance, which unpickles both  *)
(* and predicts the intent of one utterance.                               *)
(*                                                                         *)
(* Real numbers are fixed point with Scale units to 1.0.  The result of    *)
(* LinearSVC.fit (a library optimisation) and the permutation drawn by     *)
(* train_test_split(random_state=0) are nondeterministic choices.          *)
(***************************************************************************)
EXTENDS Integers, Sequences, FiniteSets, TLC

\* ----------------------------------------------------------------- bounds
\* Number of train_linear_svc_model invocations in a behaviour.
MaxRuns == 2

\* ------------------------------------------------------------------- data
\* Fixed point: Scale units are 1.0.
Scale == 1000

VectorizerFile == "model_vectorizer.pickle"
ModelFile == "classification.model"
NoSuchFile == "nonexistent.pickle"
Paths == {VectorizerFile, ModelFile, NoSuchFile}

Intents == {"book_appointment", "greeting"}
\* Sorted order of the labels (numpy.unique sorts classes_).
IntentOrder == <<"book_appointment", "greeting">>

\* An utterance is its sequence of whitespace-separated words.
Greeting(utterance) == [intent |-> "greeting", utterance |-> utterance]
Booking(utterance) == [intent |-> "book_appointment", utterance |-> utterance]

\* The contents the training JSON file can have: no example, one, two,
\* three with both intents, and files whose only tokens are one character.
TrainingFiles ==
    { <<>>,
      <<Greeting(<<"whats">>)>>,
      <<Greeting(<<"whats">>), Booking(<<"Book", "a", "book">>)>>,
      <<Greeting(<<"whats">>), Booking(<<"Book", "a", "book">>), Greeting(<<"a">>)>>,
      <<Greeting(<<"a">>), Booking(<<"a">>), Greeting(<<"a">>)>> }

Probes == { <<"whats">>, <<"Book", "a", "book">>, <<"qqqzzzunknown">> }

\* Sorted order of every token the tokenizer can produce here.
TokenOrder == <<"book", "qqqzzzunknown", "whats">>

\* ------------------------------------------------------- CountVectorizer
\* str.lower() on the words of the model.
Lower(w) == IF w = "Book" THEN "book" ELSE w

\* Default analyzer: lowercase, then token_pattern (?u)\b\w\w+\b, which
\* keeps only tokens of two or more word characters.
Tokenize(utterance) ==
    LET lowered == [i \in 1..Len(utterance) |-> Lower(utterance[i])]
    IN  SelectSeq(lowered, LAMBDA t : Len(t) >= 2)

TokenSet(utterance) == { Tokenize(utterance)[i] : i \in 1..Len(Tokenize(utterance)) }

\* vocabulary_ as the sorted sequence of feature names; the column index of
\* a token is its position in it.
FitVocabulary(docs) ==
    LET seen == UNION { TokenSet(docs[i]) : i \in 1..Len(docs) }
    IN  SelectSeq(TokenOrder, LAMBDA t : t \in seen)

CountVectorizer(vocabulary) == [cls |-> "CountVectorizer", vocabulary_ |-> vocabulary]

CountOf(token, tokens) == Cardinality({ i \in 1..Len(tokens) : tokens[i] = token })

\* The row of raw term counts of an utterance over a vocabulary; tokens
\* outside the vocabulary are dropped.
CountRow(vocabulary, utterance) ==
    [i \in 1..Len(vocabulary) |-> CountOf(vocabulary[i], Tokenize(utterance))]

\* fit_transform in place of transform: the vocabulary is rebuilt from the
\* utterance itself.
VectFitTransform(vect, utterance) == CountRow(FitVocabulary(<<utterance>>), utterance)

\* CountVectorizer.transform([utterance]) with the fixed vocabulary.
VectTransform(vect, utterance) == CountRow(vect.vocabulary_, utterance)

\* ------------------------------------------------------ TfidfTransformer
\* ln(k) in Scale units.
Ln == <<0, 693, 1099, 1386, 1609, 1792, 1946, 2079, 2197, 2303>>

RECURSIVE SumSeq(_)
SumSeq(s) == IF s = <<>> THEN 0 ELSE Head(s) + SumSeq(Tail(s))

RECURSIVE IsqrtBits(_, _, _)
\* Largest r with r*r <= n, by bisection on [lo, hi).
IsqrtBits(n, lo, hi) ==
    IF hi - lo <= 1 THEN lo
    ELSE LET mid == (lo + hi) \div 2
         IN  IF mid * mid <= n THEN IsqrtBits(n, mid, hi) ELSE IsqrtBits(n, lo, mid)

\* 46340 is the largest root whose square fits the 32-bit integers.
Isqrt(n) == IsqrtBits(n, 0, IF n < 46340 THEN n + 1 ELSE 46340)

\* TfidfTransformer().fit(counts): smooth idf, ln((1+n)/(1+df)) + 1.
FitTfidf(counts) ==
    LET n == Len(counts)
        width == IF n = 0 THEN 0 ELSE Len(counts[1])
        df(j) == Cardinality({ i \in 1..n : counts[i][j] > 0 })
    IN  [cls |-> "TfidfTransformer",
         idf_ |-> [j \in 1..width |-> Ln[1 + n] - Ln[1 + df(j)] + Scale]]

\* TfidfTransformer.transform(row): tf * idf, then l2 normalisation.
TfidfTransform(tfidf, row) ==
    LET raw == [j \in 1..Len(row) |-> row[j] * tfidf.idf_[j]]
        norm == Isqrt(SumSeq([j \in 1..Len(row) |-> raw[j] * raw[j]]))
    IN  IF norm = 0 THEN raw ELSE [j \in 1..Len(row) |-> (raw[j] * Scale) \div norm]

\* A row of raw counts as the fixed-point row predict receives.
AsFloat(row) == [j \in 1..Len(row) |-> row[j] * Scale]

\* -------------------------------------------------------------- LinearSVC
NoObject == [cls |-> "None"]

\* The values a fitted coefficient or intercept takes here.
Weights == {-1, 0, 1}

RECURSIVE Distinct(_)
Distinct(s) == IF s = <<>> THEN {} ELSE {Head(s)} \cup Distinct(Tail(s))

\* classes_: the sorted distinct labels of y.
Classes(y) == SelectSeq(IntentOrder, LAMBDA c : c \in Distinct(y))

\* LinearSVC().fit(X, y) for two classes: one coefficient row and one
\* intercept, whose values the optimiser decides.
LinearSVCFit(X, y) ==
    { [cls |-> "LinearSVC", classes_ |-> Classes(y), coef_ |-> w, intercept_ |-> b] :
        w \in [1..Len(X[1]) -> Weights], b \in Weights }

\* decision_function of the binary model, in Scale units.
Decision(model, row) ==
    SumSeq([j \in 1..Len(row) |-> model.coef_[j] * row[j]]) + model.intercept_ * Scale

\* LinearSVC.predict on one row: the one-element array holding classes_[1]
\* when the score is positive, classes_[0] otherwise (1-based here).
Predict(model, row) == << model.classes_[IF Decision(model, row) > 0 THEN 2 ELSE 1] >>

\* ----------------------------------------------------------------- pickle
GlobalOp(name) == [op |-> "GLOBAL", s |-> name, i |-> 0]
StrOp(str) == [op |-> "STR", s |-> str, i |-> 0]
IntOp(int) == [op |-> "INT", s |-> "", i |-> int]
StopOp == [op |-> "STOP", s |-> "", i |-> 0]

RECURSIVE Flatten(_)
Flatten(ss) == IF ss = <<>> THEN <<>> ELSE Head(ss) \o Flatten(Tail(ss))

\* A dump that leaves the intercept of a model out (writes 0 for it).
PickleDumpsNoIntercept(obj) ==
    IF obj.cls = "CountVectorizer"
    THEN <<GlobalOp(obj.cls), IntOp(Len(obj.vocabulary_))>>
         \o Flatten([j \in 1..Len(obj.vocabulary_) |->
                        <<StrOp(obj.vocabulary_[j]), IntOp(j - 1)>>])
         \o <<StopOp>>
    ELSE <<GlobalOp(obj.cls), IntOp(Len(obj.classes_))>>
         \o [j \in 1..Len(obj.classes_) |-> StrOp(obj.classes_[j])]
         \o <<IntOp(Len(obj.coef_))>>
         \o [j \in 1..Len(obj.coef_) |-> IntOp(obj.coef_[j])]
         \o <<IntOp(0), StopOp>>

\* pickle.dumps: the class, then the fitted attributes, then STOP.
PickleDumps(obj) ==
    IF obj.cls = "CountVectorizer"
    THEN <<GlobalOp(obj.cls), IntOp(Len(obj.vocabulary_))>>
         \o Flatten([j \in 1..Len(obj.vocabulary_) |->
                        <<StrOp(obj.vocabulary_[j]), IntOp(j - 1)>>])
         \o <<StopOp>>
    ELSE <<GlobalOp(obj.cls), IntOp(Len(obj.classes_))>>
         \o [j \in 1..Len(obj.classes_) |-> StrOp(obj.classes_[j])]
         \o <<IntOp(Len(obj.coef_))>>
         \o [j \in 1..Len(obj.coef_) |-> IntOp(obj.coef_[j])]
         \o <<IntOp(obj.intercept_), StopOp>>

Loaded(obj) == [exc |-> "none", obj |-> obj]
Raised(exc) == [exc |-> exc, obj |-> [cls |-> "None"]]

\* pickle.loads: rebuilds the first object of the stream; an empty stream
\* is "Ran out of input".
PickleLoads(data) ==
    IF data = <<>> THEN Raised("EOFError")
    ELSE IF data[1].s = "CountVectorizer"
    THEN LET n == data[2].i
             at(idx) == CHOOSE j \in 1..n : data[2 + 2 * j].i = idx
         IN  Loaded(CountVectorizer([k \in 1..n |-> data[1 + 2 * at(k - 1)].s]))
    ELSE LET k == data[2].i
             v == data[3 + k].i
         IN  Loaded([cls |-> data[1].s,
                     classes_ |-> [j \in 1..k |-> data[2 + j].s],
                     coef_ |-> [j \in 1..v |-> data[3 + k + j].i],
                     intercept_ |-> data[4 + k + v].i])

\* ------------------------------------------------------------ file system
Absent == [exists |-> FALSE, data |-> <<>>]
File(data) == [exists |-> TRUE, data |-> data]

\* A file once open(path, mode) has succeeded: 'wb' creates or truncates it,
\* 'ab' creates it or keeps what it holds, 'rb' leaves it as it is.
OpenFile(file, mode) ==
    IF mode = "wb" THEN File(<<>>)
    ELSE IF mode = "ab" THEN File(file.data)
    ELSE file

\* Append mode, which keeps the earlier pickle in front of the new one.
AppendMode == "ab"

\* Write mode, which truncates the file it opens.
WriteMode == "wb"

\* The mode train_linear_svc_model opens the artifacts with.
TrainOpenMode == "wb"
\* The mode classify_utterance opens the artifacts with.
ClassifyOpenMode == "rb"

\* pickle.load(open(path, 'rb')) on the files.
PickleLoad(files, path) ==
    IF ~files[path].exists THEN Raised("FileNotFoundError")
    ELSE PickleLoads(files[path].data)

\* ------------------------------------------------------ classify_utterance
Returned(intent, row) == [exc |-> "none", intent |-> intent, X |-> row]
Failed(exc) == [exc |-> exc, intent |-> "", X |-> <<>>]

\* str(raw_intent) of the whole predicted array, brackets and quotes included.
StrOfArray(raw_intent) ==
    IF raw_intent[1] = "greeting" THEN "['greeting']" ELSE "['book_appointment']"

\* str(raw_intent[0]): the first predicted label as a plain string.
IntentOf(raw_intent) == raw_intent[1]

\* The row classify_utterance hands to predict.
ClassifyFeatures(vect, utterance) == AsFloat(VectTransform(vect, utterance))

\* The files after the opens of classify_utterance: the vectorizer file is
\* opened if it exists, the model file if the vectorizer was loaded.
ClassifyFiles(files, vectorizer_file, model_file) ==
    LET first == IF files[vectorizer_file].exists
                 THEN [files EXCEPT ![vectorizer_file] = OpenFile(@, ClassifyOpenMode)]
                 ELSE files
    IN  IF PickleLoad(first, vectorizer_file).exc = "none" /\ first[model_file].exists
        THEN [first EXCEPT ![model_file] = OpenFile(@, ClassifyOpenMode)]
        ELSE first

classify_utterance(files, utterance, vectorizer_file, model_file) ==
    LET opened == ClassifyFiles(files, vectorizer_file, model_file)
        vect == PickleLoad(opened, vectorizer_file)
        model == PickleLoad(opened, model_file)
    IN  IF vect.exc # "none" THEN Failed(vect.exc)
        ELSE IF model.exc # "none" THEN Failed(model.exc)
        ELSE IF model.obj.cls # "LinearSVC" \/ vect.obj.cls # "CountVectorizer"
             THEN Failed("AttributeError")
        ELSE LET row == ClassifyFeatures(vect.obj, utterance)
             IN  IF Len(row) # Len(model.obj.coef_) THEN Failed("ValueError")
                 ELSE Returned(IntentOf(Predict(model.obj, row)), row)

\* ------------------------------------------------- train_linear_svc_model
\* The try block with the model written before the vectorizer.
StepsModelFirst ==
    << "read_json", "train_test_split", "count_vect.fit_transform",
       "tfidf.fit_transform", "LinearSVC.fit", "open_model", "dump_model",
       "open_vectorizer", "dump_vectorizer", "print_completed" >>

\* The statements of the try block, in program order.
Steps ==
    << "read_json", "train_test_split", "count_vect.fit_transform",
       "tfidf.fit_transform", "LinearSVC.fit", "open_vectorizer",
       "dump_vectorizer", "open_model", "dump_model", "print_completed" >>

StepIndex(step) == CHOOSE k \in 1..Len(Steps) : Steps[k] = step

\* Failures of the environment: the training file cannot be read or parsed,
\* an artifact cannot be opened for writing, a dump fails.
Faults == {"none", "read_json", "open_vectorizer", "dump_vectorizer", "open_model", "dump_model"}

CompletedMessages ==
    << "------LinearSVC CLASSIFICATION TRAINING COMPLETED------",
       "Vectorizer model saved to the current directory",
       "Classification model saved to the current directory" >>

ErrorMessage == "Error training classification model"

\* train_test_split with the default test_size 0.25: ceil(0.25 n) examples
\* are held out, floor(0.75 n) are kept.
NTest(n) == (n + 3) \div 4
NTrain(n) == (3 * n) \div 4

\* The held-out index sets the shuffle may produce.
Splits(n) == { t \in SUBSET (1..n) : Cardinality(t) = NTest(n) }

\* The rows of data kept for training, in file order.
TrainPartition(data, test) == SelectSeq([i \in 1..Len(data) |-> [idx |-> i, ex |-> data[i]]],
                                        LAMBDA r : r.idx \notin test)

X_train(data, test) ==
    [i \in 1..Len(TrainPartition(data, test)) |-> TrainPartition(data, test)[i].ex.utterance]
y_train(data, test) ==
    [i \in 1..Len(TrainPartition(data, test)) |-> TrainPartition(data, test)[i].ex.intent]

\* The step at which the data itself makes the library raise, with the
\* exception: df['utterance'] on an empty frame, an empty train partition,
\* an empty vocabulary, fewer than two classes.
DataFailure(data, test) ==
    IF Len(data) = 0 THEN [step |-> "train_test_split", exc |-> "KeyError"]
    ELSE IF NTrain(Len(data)) = 0 THEN [step |-> "train_test_split", exc |-> "ValueError"]
    ELSE IF FitVocabulary(X_train(data, test)) = <<>>
         THEN [step |-> "count_vect.fit_transform", exc |-> "ValueError"]
    ELSE IF Len(Classes(y_train(data, test))) < 2
         THEN [step |-> "LinearSVC.fit", exc |-> "ValueError"]
    ELSE [step |-> "none", exc |-> "none"]

\* Lines 178-189 on one training file and one shuffle: the split, the two
\* fitted transforms, the rows the model is fitted on and the models the
\* fit may return.
Pipeline(data, test) ==
    LET docs == X_train(data, test)
        count_vect == CountVectorizer(FitVocabulary(docs))
        X_train_counts == [i \in 1..Len(docs) |-> CountRow(count_vect.vocabulary_, docs[i])]
        tfidf == FitTfidf(X_train_counts)
        X_train_tfidf == [i \in 1..Len(docs) |-> TfidfTransform(tfidf, X_train_counts[i])]
        failure == DataFailure(data, test)
    IN  [data |-> data, failure |-> failure, count_vect |-> count_vect, tfidf |-> tfidf,
         X_train_tfidf |-> X_train_tfidf,
         models |-> IF failure.step = "none"
                    THEN LinearSVCFit(X_train_tfidf, y_train(data, test))
                    ELSE {NoObject}]

Pipelines ==
    UNION { { Pipeline(data, test) : test \in Splits(Len(data)) } : data \in TrainingFiles }

\* The first statement that raises, and what it raises: d is the failure the
\* data causes, fault the one the environment causes.
Failure(d, fault) ==
    IF fault # "none" /\ (d.step = "none" \/ StepIndex(fault) < StepIndex(d.step))
    THEN [step |-> fault, exc |-> IF fault = "read_json" THEN "ValueError" ELSE "OSError"]
    ELSE d

\* Number of statements that completed.
Completed(failure) == IF failure.step = "none" THEN Len(Steps) ELSE StepIndex(failure.step) - 1

Done(failure, step) == StepIndex(step) <= Completed(failure)

\* An artifact file after the invocation: open(path, 'wb') creates or
\* truncates it, pickle.dump then writes the pickle at the end of it.
ArtifactAfter(before, failure, open, dump, obj) ==
    IF Done(failure, dump)
    THEN File(OpenFile(before, TrainOpenMode).data \o PickleDumps(obj))
    ELSE IF Done(failure, open) THEN OpenFile(before, TrainOpenMode)
    ELSE before

\* What the invocation prints.
Printed(failure) ==
    IF Done(failure, "print_completed") THEN CompletedMessages ELSE <<ErrorMessage>>

\* "except ValueError:" in place of the bare except.
PropagatedUnlessValueError(failure) ==
    IF failure.exc \in {"none", "ValueError"} THEN "none" ELSE failure.exc

\* What reaches the caller: the bare except catches every exception.
Propagated(failure) == "none"

\* The statements the invocation ran, the raising one included.
Trace(failure) == SubSeq(Steps, 1, IF failure.step = "none" THEN Len(Steps) ELSE Completed(failure) + 1)

NoMemory == [run |-> 0, count_vect |-> NoObject, tfidf |-> NoObject, model |-> NoObject, labels |-> {}]

VARIABLES
    fs,         \* the files: path -> [exists, data]
    runs,       \* train_linear_svc_model invocations so far
    writtenBy,  \* path -> the invocation whose dump last filled it (0: none)
    call,       \* the last invocation: function and arguments
    outcome,    \* what it returned or raised
    stdout,     \* what it printed
    trace,      \* the statements it ran
    cause,      \* the exception raised inside it ("none" if none)
    mem         \* the objects in memory at the end of the last successful training

vars == <<fs, runs, writtenBy, call, outcome, stdout, trace, cause, mem>>

NoCall == [fn |-> "none", utterance |-> <<>>, vectorizer_file |-> "", model_file |-> "", data |-> <<>>]
NoOutcome == Failed("none")

Init ==
    /\ fs = [p \in Paths |-> Absent]
    /\ runs = 0
    /\ writtenBy = [p \in Paths |-> 0]
    /\ call = NoCall
    /\ outcome = NoOutcome
    /\ stdout = <<>>
    /\ trace = <<>>
    /\ cause = "none"
    /\ mem = NoMemory

\* train_linear_svc_model(classification_training_data_json), whole.
Train ==
    /\ runs < MaxRuns
    /\ \E fitted \in Pipelines, fault \in Faults :
         LET failure == Failure(fitted.failure, fault)
         IN  \E model \in (IF Done(failure, "dump_model") THEN fitted.models ELSE {NoObject}) :
               /\ runs' = runs + 1
               /\ fs' = [fs EXCEPT
                     ![VectorizerFile] = ArtifactAfter(@, failure, "open_vectorizer",
                                                       "dump_vectorizer", fitted.count_vect),
                     ![ModelFile] = ArtifactAfter(@, failure, "open_model",
                                                  "dump_model", model)]
               /\ writtenBy' = [writtenBy EXCEPT
                     ![VectorizerFile] = IF Done(failure, "open_vectorizer") THEN runs + 1 ELSE @,
                     ![ModelFile] = IF Done(failure, "open_model") THEN runs + 1 ELSE @]
               /\ call' = [NoCall EXCEPT !.fn = "train_linear_svc_model", !.data = fitted.data]
               /\ outcome' = Failed(Propagated(failure))
               /\ stdout' = Printed(failure)
               /\ trace' = Trace(failure)
               /\ cause' = failure.exc
               /\ mem' = IF failure.step = "none"
                         THEN [run |-> runs + 1, count_vect |-> fitted.count_vect,
                               tfidf |-> fitted.tfidf, model |-> model,
                               labels |-> { fitted.data[i].intent : i \in 1..Len(fitted.data) }]
                         ELSE mem

\* classify_utterance(utterance, vectorizer_file, model_file), whole.
Classify ==
    \E utterance \in Probes, vectorizer_file \in Paths, model_file \in Paths :
      /\ call' = [NoCall EXCEPT !.fn = "classify_utterance", !.utterance = utterance,
                                !.vectorizer_file = vectorizer_file,
                                !.model_file = model_file]
      /\ outcome' = classify_utterance(fs, utterance, vectorizer_file, model_file)
      /\ stdout' = <<>>
      /\ trace' = <<>>
      /\ cause' = outcome'.exc
      /\ fs' = ClassifyFiles(fs, vectorizer_file, model_file)
      /\ UNCHANGED <<runs, writtenBy, mem>>

Next == Train \/ Classify

Spec == Init /\ [][Next]_vars

\* ------------------------------------------------------------ properties
IsTrain == call.fn = "train_linear_svc_model"
IsClassify == call.fn = "classify_utterance"

\* The last call classified with the two artifact paths of the trainer.
ClassifiedArtifacts ==
    IsClassify /\ call.vectorizer_file = VectorizerFile /\ call.model_file = ModelFile

\* Both artifact files were written by the last training that completed, and
\* by no later one.
FromSuccessfulTrain ==
    mem.run > 0 /\ writtenBy[VectorizerFile] = mem.run /\ writtenBy[ModelFile] = mem.run

\* C1 (label closure): classify_utterance on the artifacts of a successful
\* training returns an intent that occurs in the loaded training data.
C1_LabelClosure ==
    (ClassifiedArtifacts /\ FromSuccessfulTrain)
        => (outcome.exc = "none" /\ outcome.intent \in mem.labels)

C1_Witness ==
    /\ ClassifiedArtifacts /\ FromSuccessfulTrain
    /\ outcome.exc = "none" /\ outcome.intent = "greeting"
    /\ mem.labels = Intents

\* C2 (missing-artifact rejection, as claimed): classify_utterance on a
\* vectorizer or model path that does not exist fails with ArtifactLoadError.
C2_MissingArtifact ==
    (IsClassify /\ (~fs[call.vectorizer_file].exists \/ ~fs[call.model_file].exists))
        => outcome.exc = "ArtifactLoadError"

\* C3 (empty-input rejection, as claimed): training on an empty example
\* sequence fails with EmptyDatasetError and writes no artifact.
C3_EmptyInput ==
    (IsTrain /\ call.data = <<>>)
        => (outcome.exc = "EmptyDatasetError" /\ writtenBy[VectorizerFile] # runs
            /\ writtenBy[ModelFile] # runs)

\* C4 (trainer failure policy): whatever raises inside
\* train_linear_svc_model, nothing reaches the caller, and the only output
\* is the one generic message, without the completion messages.
C4_FailurePolicy ==
    IsTrain => /\ outcome.exc = "none"
               /\ cause # "none" => stdout = <<ErrorMessage>>
               /\ cause = "none" => stdout = CompletedMessages

C4_Witness ==
    /\ IsTrain /\ cause = "OSError" /\ fs[VectorizerFile].exists
    /\ outcome.exc = "none" /\ stdout = <<ErrorMessage>>

\* C5 (round trip): the two artifacts of a successful training, read back,
\* predict for every probe what the fitted pair in memory predicts.
C5_RoundTrip ==
    FromSuccessfulTrain =>
        \A u \in Probes :
            classify_utterance(fs, u, VectorizerFile, ModelFile)
                = Returned(Predict(mem.model, ClassifyFeatures(mem.count_vect, u))[1],
                           ClassifyFeatures(mem.count_vect, u))

C5_Witness ==
    /\ FromSuccessfulTrain /\ ClassifiedArtifacts
    /\ Len(mem.count_vect.vocabulary_) = 2 /\ mem.model.intercept_ = 1
    /\ mem.model.coef_ = <<-1, 1>>
    /\ outcome.exc = "none"

\* C6 (read-only, no cache): a classify_utterance call leaves every file as
\* it was, its result is the one the files now on disk give, and the row it
\* predicts on has exactly the columns of the vocabulary on disk.
C6_ReadOnlyNoCache ==
    [][ call'.fn = "classify_utterance" =>
          /\ fs' = fs
          /\ outcome' = classify_utterance(fs', call'.utterance, call'.vectorizer_file,
                                           call'.model_file)
          /\ outcome'.exc = "none" =>
               Len(outcome'.X)
                   = Len(PickleLoad(fs', call'.vectorizer_file).obj.vocabulary_) ]_vars

\* A classify on the artifacts of a second training, which replaced those
\* of the first.
C6_Witness ==
    /\ ClassifiedArtifacts /\ FromSuccessfulTrain /\ mem.run = 2
    /\ outcome.exc = "none"

\* C7 (unseen-token tolerance): an utterance with no token of the trained
\* vocabulary is classified without failure, on an all-zero row, as a
\* non-empty label of the training data.
C7_UnseenTokens ==
    ( /\ ClassifiedArtifacts /\ FromSuccessfulTrain
      /\ \A j \in 1..Len(mem.count_vect.vocabulary_) :
             mem.count_vect.vocabulary_[j] \notin TokenSet(call.utterance) )
        => /\ outcome.exc = "none"
           /\ outcome.intent # "" /\ outcome.intent \in mem.labels
           /\ \A j \in 1..Len(outcome.X) : outcome.X[j] = 0

C7_Witness ==
    /\ ClassifiedArtifacts /\ FromSuccessfulTrain
    /\ call.utterance = <<"qqqzzzunknown">>
    /\ outcome.exc = "none" /\ outcome.intent \in mem.labels

\* C8 (write ordering): in one training the model file is touched only
\* after the vectorizer file was completely written, no file is touched
\* before the three fits succeeded, a completed dump replaces whatever the
\* file held, the completion messages follow both dumps, and a failure
\* before the first open leaves both files as they were.
C8_WriteOrdering ==
    [][ call'.fn = "train_linear_svc_model" =>
          /\ writtenBy'[ModelFile] = runs' =>
                /\ writtenBy'[VectorizerFile] = runs'
                /\ fs'[VectorizerFile].exists /\ fs'[VectorizerFile].data # <<>>
          /\ writtenBy'[VectorizerFile] = runs' =>
                \E k \in 1..(Len(trace') - 1) : trace'[k] = "LinearSVC.fit"
          /\ stdout' = CompletedMessages =>
                /\ writtenBy'[VectorizerFile] = runs' /\ writtenBy'[ModelFile] = runs'
                /\ fs'[VectorizerFile] = File(PickleDumps(mem'.count_vect))
                /\ fs'[ModelFile] = File(PickleDumps(mem'.model))
          /\ writtenBy'[VectorizerFile] # runs' => fs' = fs ]_vars

\* A second training that reached both writes over the files of the first.
C8_Witness ==
    /\ IsTrain /\ runs = 2 /\ stdout = CompletedMessages
    /\ writtenBy[VectorizerFile] = 2 /\ writtenBy[ModelFile] = 2

C10_PipelineEquivalence ==
    (ClassifiedArtifacts /\ FromSuccessfulTrain /\ outcome.exc = "none")
        => outcome.X = TfidfTransform(mem.tfidf, VectTransform(mem.count_vect, call.utterance))

====
